---- MODULE Spec2Model ----
(***************************************************************************)
(* Model of src/app.py (Smart Research Intelligence Platform): the text    *)
(* sanitizer, the response cache, the completion executor                  *)
(* (_execute_groq_call), the recommendation parser and the analysis        *)
(* orchestrator (execute_complete_analysis behind                          *)
(* production_analysis_handler).                                           *)
(*                                                                         *)
(* Texts.  A Python str is modelled as a run-length encoded sequence of    *)
(* characters: a sequence of runs [c |-> character, n |-> repetitions],    *)
(* kept in normal form (no empty run, neighbouring runs differ).  The      *)
(* characters are class representatives: "a" a letter, "v" the letter     *)
(* that ends an action verb, "1" a digit, " " and "\n" whitespace, "\\"    *)
(* and "bullet" characters the sanitizer removes, and the punctuation the  *)
(* parser looks at.  A context label inside a text is a run of a class of  *)
(* its own; literal template text of a prompt is one symbolic character    *)
(* naming the template.                                                    *)
(*                                                                         *)
(* Two specifications: Spec serves requests through the entry points,      *)
(* SpecExec calls _execute_groq_call on its own and records in trace what  *)
(* each call did.  Scores are in thousandths, durations in whole seconds.  *)
(***************************************************************************)
EXTENDS Integers, Sequences, FiniteSets, TLC

\* ------------------------------------------------------------ str basics

Run(c, n) == [c |-> c, n |-> n]

\* n copies of character c ("c" * n)
Rep(c, n) == IF n > 0 THEN <<Run(c, n)>> ELSE <<>>

\* s + t for normal forms: only the runs that meet can merge
Cat(s, t) ==
    IF s = <<>> THEN t
    ELSE IF t = <<>> THEN s
    ELSE IF s[Len(s)].c = t[1].c
         THEN SubSeq(s, 1, Len(s) - 1) \o <<Run(t[1].c, s[Len(s)].n + t[1].n)>> \o Tail(t)
         ELSE s \o t

RECURSIVE NormRange(_, _, _)
\* normal form of the runs lo .. hi of s, by halves
NormRange(s, lo, hi) ==
    IF lo > hi THEN <<>>
    ELSE IF lo = hi THEN (IF s[lo].n = 0 THEN <<>> ELSE <<s[lo]>>)
    ELSE Cat(NormRange(s, lo, (lo + hi) \div 2), NormRange(s, (lo + hi) \div 2 + 1, hi))

\* normal form of a run sequence: empty runs dropped, equal neighbours merged
Norm(s) == NormRange(s, 1, Len(s))

RECURSIVE CatAll(_)
\* "".join(parts)
CatAll(parts) ==
    IF parts = <<>> THEN <<>> ELSE Cat(Head(parts), CatAll(Tail(parts)))

RECURSIVE SumRuns(_, _, _)
\* number of characters in the runs lo .. hi of s, by halves
SumRuns(s, lo, hi) ==
    IF lo > hi THEN 0
    ELSE IF lo = hi THEN s[lo].n
    ELSE SumRuns(s, lo, (lo + hi) \div 2) + SumRuns(s, (lo + hi) \div 2 + 1, hi)

\* len(s)
StrLen(s) == SumRuns(s, 1, Len(s))

RECURSIVE TakeRange(_, _, _, _)
\* the first k characters (k >= 1) of the runs lo .. hi of s, by halves
TakeRange(s, lo, hi, k) ==
    IF lo = hi THEN <<Run(s[lo].c, IF s[lo].n < k THEN s[lo].n ELSE k)>>
    ELSE LET mid == (lo + hi) \div 2
             left == SumRuns(s, lo, mid)
         IN  IF k <= left THEN TakeRange(s, lo, mid, k)
             ELSE SubSeq(s, lo, mid) \o TakeRange(s, mid + 1, hi, k - left)

\* s[:k]
Take(s, k) == IF s = <<>> \/ k <= 0 THEN <<>> ELSE TakeRange(s, 1, Len(s), k)

\* str.isspace for one character
IsSpace(c) == c \in {" ", "\n"}

\* s.lstrip()
LStrip(s) ==
    IF \A i \in 1 .. Len(s) : IsSpace(s[i].c) THEN <<>>
    ELSE LET first == CHOOSE j \in 1 .. Len(s) :
                          ~IsSpace(s[j].c) /\ \A i \in 1 .. (j - 1) : IsSpace(s[i].c)
         IN  SubSeq(s, first, Len(s))

\* s.rstrip()
RStrip(s) ==
    IF \A i \in 1 .. Len(s) : IsSpace(s[i].c) THEN <<>>
    ELSE LET last == CHOOSE j \in 1 .. Len(s) :
                         ~IsSpace(s[j].c) /\ \A i \in (j + 1) .. Len(s) : IsSpace(s[i].c)
         IN  SubSeq(s, 1, last)

\* s.strip()
Strip(s) == RStrip(LStrip(s))

\* ------------------------------------------------------------ sanitizer

\* the characters of the model that the pattern of _clean_input keeps:
\* \w, \s and the listed punctuation; the backslash and the bullet are not
\* in the class
Removed(c) == c \in {"\\", "bullet"}

\* re.sub(r'[^\w\s\-.,!?()...]', '', text)
ReSubDisallowed(text) == Norm(SelectSeq(text, LAMBDA r : ~Removed(r.c)))

\* variant: the cleaned text is not cut
CleanWithoutCut(text, max_chars) ==
    IF text = <<>> THEN <<>> ELSE Strip(ReSubDisallowed(text))

\* FinalGroqSystem._clean_input: "" for an empty text; otherwise remove the
\* disallowed characters, strip, then truncate
CleanInput(text, max_chars) ==
    IF text = <<>> THEN <<>>
    ELSE Take(Strip(ReSubDisallowed(text)), max_chars)

\* ------------------------------------------------------------ constants

\* minimum trimmed query length at production_analysis_handler
HandlerMinQuery == 8
\* minimum trimmed query length at execute_complete_analysis
OrchestratorMinQuery == 10
\* minimum sanitized query length inside each agent
AgentMinQuery == 5
\* default max_chars of _clean_input
DefaultMaxChars == 4000
\* attempts per model ("for attempt in range(3)")
AttemptsPerModel == 3
\* minimum trimmed length of an accepted completion ("len(content) > 150")
MinQuality == 150
\* models in all_models: the primary model and the two fallback models
NumModels == 3

\* [self.primary_model] + self.fallback_models, as indexes 0 .. NumModels-1
AllModels == 0 .. (NumModels - 1)

\* self.section_tokens
SectionTokens(section) ==
    CASE section = "market" -> 1000
      [] section = "competitive" -> 1000
      [] section = "risk" -> 800
      [] section = "recommendations" -> 700
      [] section = "summary" -> 600

\* len(context) of the context labels the agents pass to the executor
ContextLen(context) ==
    CASE context = "market_intelligence" -> 19
      [] context = "competitive_intelligence" -> 24
      [] context = "risk_assessment" -> 15
      [] context = "strategic_recommendations" -> 25
      [] context = "executive_summary" -> 17

\* a literal piece of a prompt template, as one symbolic character
Sym(name) == <<Run(name, 1)>>

\* the sentence appended to the first message's content
AccuracyClause == Sym(" Focus on factual, evidence-based analysis. ...")

\* {context} and {context.upper()} inside a text: the characters of the
\* label, as one run of a character class of its own
Label(context) == Rep(context, ContextLen(context))

\* f"No input provided for {context} analysis."
NoInputText(context) == CatAll(<<Rep("a", 22), Label(context), Rep("a", 10)>>)

\* the structured fallback of _execute_groq_call, stripped: a heading,
\* two sentences, four bullet lines and a closing line
FallbackText(context) ==
    CatAll(<< Label(context), Rep("a", 32), Rep("\n", 2),
              Rep("a", 36), Label(context), Rep("a", 37), Rep(" ", 1), Rep("\n", 1),
              Rep("a", 47), Rep("\n", 2),
              Rep("-", 1), Rep(" ", 1), Rep("a", 68), Rep("\n", 1),
              Rep("-", 1), Rep(" ", 1), Rep("a", 71), Rep(" ", 2), Rep("\n", 1),
              Rep("-", 1), Rep(" ", 1), Rep("a", 61), Rep("\n", 1),
              Rep("-", 1), Rep(" ", 1), Rep("a", 63), Rep("\n", 2),
              Rep("a", 83) >>)

\* "Insufficient query detail for ..." of the agent of a section
InsufficientText(section) ==
    CASE section = "market" -> Rep("a", 59)
      [] section = "competitive" -> Rep("a", 64)
      [] section = "risk" -> Rep("a", 46)
      [] OTHER -> Rep("a", 49)

\* ------------------------------------------------------------ parser

RECURSIVE SplitRange(_, _, _, _)
\* the pieces of the runs lo .. hi of s between separators, by halves: the
\* last piece of the left half continues in the first piece of the right
SplitRange(s, sep, lo, hi) ==
    IF lo > hi THEN << <<>> >>
    ELSE IF lo = hi
         THEN (IF s[lo].c = sep THEN [i \in 1 .. (s[lo].n + 1) |-> <<>>] ELSE << <<s[lo]>> >>)
    ELSE LET left == SplitRange(s, sep, lo, (lo + hi) \div 2)
             right == SplitRange(s, sep, (lo + hi) \div 2 + 1, hi)
         IN  SubSeq(left, 1, Len(left) - 1)
             \o << left[Len(left)] \o right[1] >>
             \o Tail(right)

\* s.split(sep) for a one-character separator
SplitBy(s, sep) == SplitRange(s, sep, 1, Len(s))

\* text.split('\n')
SplitLines(text) == SplitBy(text, "\n")

\* s[1:]
DropFirst(s) == IF Head(s).n > 1 THEN <<Run(Head(s).c, Head(s).n - 1)>> \o Tail(s) ELSE Tail(s)

\* re.match(r'^(\d+)[\.\)]\s*(.+)', line): a digit run, one of . ) and a
\* non-empty rest (line is stripped, so the rest does not end in whitespace)
NumberedMatch(line) ==
    /\ Len(line) >= 2
    /\ line[1].c = "1"
    /\ line[2].c \in {".", ")"}
    /\ DropFirst(Tail(line)) # <<>>

\* numbered_match.group(2).strip()
NumberedGroup(line) == Strip(DropFirst(Tail(line)))

\* re.match(r'^[\-\*\•]\s*(.+)', line)
BulletMatch(line) ==
    /\ line # <<>>
    /\ line[1].c \in {"-", "*", "bullet"}
    /\ DropFirst(line) # <<>>

\* bullet_match.group(1).strip()
BulletGroup(line) == Strip(DropFirst(line))

\* minimum length (exclusive) of a numbered or bulleted item
MinItemLen == 20
\* bounds (exclusive) of the length of a line taken by the second pass
MinActionLen == 25
MaxActionLen == 300
\* the second pass runs below this many items
SecondPassBelow == 4
\* recommendations[:8]
MaxRecommendations == 8

RECURSIVE PrimaryExtraction(_, _)
\* the first loop of _parse_recommendations over lines, appending to recs
PrimaryExtraction(lines, recs) ==
    IF lines = <<>> THEN recs
    ELSE LET line == Strip(Head(lines))
         IN  IF line = <<>> THEN PrimaryExtraction(Tail(lines), recs)
             ELSE IF NumberedMatch(line) /\ StrLen(NumberedGroup(line)) > MinItemLen
                  THEN PrimaryExtraction(Tail(lines), Append(recs, NumberedGroup(line)))
             ELSE IF BulletMatch(line) /\ StrLen(BulletGroup(line)) > MinItemLen
                  THEN PrimaryExtraction(Tail(lines), Append(recs, BulletGroup(line)))
             ELSE PrimaryExtraction(Tail(lines), recs)

\* any(word in line.lower() for word in action_words): the letter "v" marks
\* the place where an action verb of the list ends
HasActionWord(line) == \E i \in 1 .. Len(line) : line[i].c = "v"

\* variant: no line counts as already collected
NeverInList(line, recs) == FALSE

\* line in recommendations
InList(line, recs) == \E i \in 1 .. Len(recs) : recs[i] = line

RECURSIVE SecondaryExtraction(_, _)
\* the second loop of _parse_recommendations, with its break at 8 items
SecondaryExtraction(lines, recs) ==
    IF lines = <<>> THEN recs
    ELSE LET line == Strip(Head(lines))
         IN  IF /\ StrLen(line) > MinActionLen
                /\ StrLen(line) < MaxActionLen
                /\ HasActionWord(line)
                /\ ~InList(line, recs)
             THEN IF Len(recs) + 1 >= MaxRecommendations
                  THEN Append(recs, line)
                  ELSE SecondaryExtraction(Tail(lines), Append(recs, line))
             ELSE SecondaryExtraction(Tail(lines), recs)

\* variant: everything collected is returned
ParseWithoutCut(text) ==
    IF text = <<>> THEN <<>>
    ELSE LET lines == SplitLines(text)
             first == PrimaryExtraction(lines, <<>>)
         IN  IF Len(first) < SecondPassBelow
             THEN SecondaryExtraction(lines, first)
             ELSE first

\* FinalGroqSystem._parse_recommendations
ParseRecommendations(text) ==
    IF text = <<>> THEN <<>>
    ELSE LET lines == SplitLines(text)
             first == PrimaryExtraction(lines, <<>>)
             all   == IF Len(first) < SecondPassBelow
                      THEN SecondaryExtraction(lines, first)
                      ELSE first
         IN  SubSeq(all, 1, IF Len(all) < MaxRecommendations THEN Len(all) ELSE MaxRecommendations)

\* ------------------------------------------------------------ prompts

RECURSIVE Join(_, _)
\* sep.join(items)
Join(sep, items) ==
    IF items = <<>> THEN <<>>
    ELSE IF Len(items) = 1 THEN items[1]
    ELSE CatAll(<<items[1], sep, Join(sep, Tail(items))>>)

\* items[:k] of a list
Prefix(items, k) == SubSeq(items, 1, IF Len(items) < k THEN Len(items) ELSE k)

\* a message dict {"role": role, "content": content}
Message(role, content) == [role |-> role, content |-> content]

\* messages of market_intelligence_agent for the sanitized query
MarketMessages(q, tgts) ==
    LET focus_area == IF tgts # <<>>
                      THEN Cat(Sym("with specific attention to "),
                               Join(Sym(", "), Prefix(tgts, 5)))
                      ELSE Sym("across the broader market landscape")
    IN  << Message("system", Sym("market:system_prompt")),
           Message("user", CatAll(<<Sym("market:Provide ... for: "), q, Rep(" ", 1),
                                    focus_area, Sym("market:sections")>>)) >>

\* messages of competitive_intelligence_agent
CompetitiveMessages(q, tgts) ==
    LET entities == IF tgts = <<>> THEN <<Sym("key market leaders")>> ELSE tgts
    IN  << Message("system", Sym("competitive:system_prompt")),
           Message("user", CatAll(<<Sym("competitive:Analyze ... for: "), q,
                                    Sym("competitive:TARGET ENTITIES: "),
                                    Join(Sym(", "), Prefix(entities, 6)),
                                    Sym("competitive:sections")>>)) >>

\* messages of risk_assessment_agent; intelligence_context is the raw context
RiskMessages(q, intelligence_context) ==
    LET ctx == CleanInput(intelligence_context, 800)
    IN  << Message("system", Sym("risk:system_prompt")),
           Message("user", CatAll(<<Sym("risk:Conduct ... for: "), q,
                                    Sym("risk:INTELLIGENCE CONTEXT: "), Take(ctx, 600),
                                    Sym("risk:categories")>>)) >>

\* one entry of intelligence_brief, or nothing when the content is too short;
\* name is the upper-cased key of complete_analysis
BriefEntry(name, content) ==
    IF content # <<>> /\ StrLen(Strip(content)) > 100
    THEN <<CatAll(<<name, Rep(":", 1), Rep(" ", 1), CleanInput(content, 400)>>)>>
    ELSE <<>>

\* synthesis of strategic_advisor_agent: " | ".join(intelligence_brief)[:1200];
\* the keys MARKET_INTELLIGENCE, COMPETITIVE_LANDSCAPE and RISK_EVALUATION
\* have 19, 21 and 15 characters
Synthesis(market, competitive, risk) ==
    Take(Join(CatAll(<<Rep(" ", 1), Rep("|", 1), Rep(" ", 1)>>),
              BriefEntry(Rep("A", 19), market)
              \o BriefEntry(Rep("A", 21), competitive)
              \o BriefEntry(Rep("A", 15), risk)), 1200)

\* messages of the recommendations call of strategic_advisor_agent
RecommendationMessages(q, synthesis) ==
    << Message("system", Sym("recommendations:system_prompt")),
       Message("user", CatAll(<<Sym("recommendations:Based on ... for: "), q,
                                Sym("recommendations:INTELLIGENCE SYNTHESIS: "), synthesis,
                                Sym("recommendations:format")>>)) >>

\* str(n) for the number of recommendations, 0 .. 8
Decimal(n) == Sym(<<"0", "1", "2", "3", "4", "5", "6", "7", "8">>[n + 1])

\* summary_messages of strategic_advisor_agent
SummaryMessages(q, synthesis, nrecs) ==
    << Message("system", Sym("summary:system_prompt")),
       Message("user", CatAll(<<Sym("summary:Create ... for: "), q,
                                Sym("summary:COMPREHENSIVE INTELLIGENCE: "), Take(synthesis, 800),
                                Sym("summary:STRATEGIC INITIATIVES: "), Decimal(nrecs),
                                Sym("summary:paragraphs")>>)) >>

\* ------------------------------------------------------------ cache key

RECURSIVE DumpItems(_)
DumpItems(msgs) ==
    IF msgs = <<>> THEN <<>>
    ELSE CatAll(<<Sym("{\"content\": "), Head(msgs).content,
                  Sym(", \"role\": "), Sym(Head(msgs).role), Sym("}"),
                  DumpItems(Tail(msgs))>>)

\* json.dumps(messages, sort_keys=True): within each dict the content comes
\* before the role
JsonDumps(msgs) == CatAll(<<Sym("["), DumpItems(msgs), Sym("]")>>)

\* FinalGroqSystem._generate_cache_id: the first 20 hex digits of the
\* SHA-256 of the content; distinct contents get distinct identifiers
\* (collisions of the digest are not modelled)
GenerateCacheId(content) == Cat(Sym("sha256[:20] of "), content)

\* ------------------------------------------------------------ state

VARIABLES
    pc,                 \* where the single thread of control is
    stage,              \* the section whose agent runs, "direct", or "none"
    served,             \* requests (or direct executor calls) started so far
    request,            \* the arguments of the request being served
    query,              \* execute_complete_analysis: the sanitized query
    targets,            \* execute_complete_analysis: the target list
    report,             \* execute_complete_analysis: the BusinessReport
    recommendations,    \* strategic_advisor_agent: the parsed recommendations
    response,           \* what the handler returned (or raised) to its caller
    cache,              \* self.response_cache
    objects,            \* the message dicts alive in the current call, by identity
    messages,           \* _execute_groq_call: the caller's list (identities)
    enhanced_messages,  \* _execute_groq_call: the copied list (identities)
    entry_messages,     \* the content of messages when the call was made
    max_tokens,         \* _execute_groq_call: max_tokens
    context,            \* _execute_groq_call: context
    cache_id,           \* _execute_groq_call: cache_id
    model_index,        \* _execute_groq_call: index of the outer loop
    attempt,            \* _execute_groq_call: index of the inner loop
    result,             \* the text the last agent or executor call returned
    exit,               \* how the last executor call ended
    run_remote,         \* a remote invocation happened since the request began
    run_slept,          \* time.sleep was called since the request began
    trace,              \* what a directly driven executor call did (see Observe)
    cache_before,       \* the cache when the request or direct call began
    answered,           \* message contents -> the response accepted for them
    stored_by,          \* cache key -> max_tokens and context of the call that stored it
    call_log,           \* context labels of the executor calls of the request
    inter_call_sleep,   \* seconds slept by the run since its last agent returned
    run_exits,          \* how each agent of the request returned so far
    previous,           \* the request before this one and what it delivered
    probe               \* a function called on its own: its arguments and value

vars == << pc, stage, served, request, query, targets, report, recommendations,
           response, cache,
           objects, messages, enhanced_messages, entry_messages, max_tokens,
           context, cache_id, model_index, attempt, result, exit, run_remote,
           run_slept, trace, cache_before, answered, stored_by, call_log, inter_call_sleep,
           run_exits, previous,
           probe >>

executor_locals == << objects, messages, enhanced_messages, entry_messages,
                      max_tokens, context, cache_id, model_index, attempt >>

run_locals == << request, query, targets, report, recommendations, response >>

\* the messages a list of identities refers to
Deref(list, objs) == [i \in 1 .. Len(list) |-> objs[list[i]]]

\* messages.copy(): a new list of the same dict objects
ShallowCopy(list, objs) == [list |-> list, objects |-> objs]

\* enhanced_messages[0]["content"] += <accuracy clause>, on the heap
AppendClause(list, objs) ==
    [objs EXCEPT ![list[1]].content = Cat(@, AccuracyClause)]

\* variant: the identifier is computed after the clause was appended
CacheKeyOfEnhanced(list, objs) ==
    GenerateCacheId(JsonDumps(Deref(list, AppendClause(list, objs))))

\* line 107: the cache identifier of the message list as it was passed in
CacheKeyOf(list, objs) == GenerateCacheId(JsonDumps(Deref(list, objs)))

\* the counters of a directly driven call, before its first attempt; models
\* lists the model index of every remote invocation, slept is the sum of the
\* back-off of a call whose invocations were all rate-limited so far
NoTrace ==
    [calls |-> 0, sleeps |-> 0, rate_limited_only |-> TRUE, last_outcome |-> "none",
     last_model |-> 0, last_attempt |-> 0, last_sleep |-> 0, slept |-> 0,
     models |-> <<>>]

\* the trace is kept for direct executor calls only: inside a request the
\* executor takes the same steps, unobserved
Observe(new) == IF stage = "direct" THEN new ELSE trace

\* the trace after a remote invocation with the given outcome and back-off
Invoked(outcome, seconds) ==
    Observe([calls |-> trace.calls + 1,
             sleeps |-> trace.sleeps + (IF seconds > 0 THEN 1 ELSE 0),
             rate_limited_only |-> trace.rate_limited_only /\ outcome = "rate_limit",
             last_outcome |-> outcome,
             last_model |-> model_index,
             last_attempt |-> attempt,
             last_sleep |-> seconds,
             slept |-> IF trace.rate_limited_only /\ outcome = "rate_limit"
                       THEN trace.slept + seconds
                       ELSE 0,
             models |-> Append(trace.models, model_index)])

\* ------------------------------------------------------------ executor

\* variant: any content is accepted, the length test of line 137 left out
AcceptsAnyContent(raw) == raw # <<>>

\* the test at lines 135-137: a choice with content whose trimmed length
\* exceeds the minimum
Accepts(raw) == raw # <<>> /\ StrLen(Strip(raw)) > MinQuality

\* variant: the wait does not grow with the model index
RateLimitWaitPerAttempt(a, m) == (a + 1) * 15

\* wait_time of the RateLimitError clause
RateLimitWait(a, m) == (a + 1) * 15 + m * 10

\* the sleep of the APIError clause
ApiErrorWait(a) == (a + 1) * 5

\* the sleep of the Exception clause
UnexpectedWait(a) == (a + 1) * 3

\* variant: the "not found" test of line 150 left out
OnlyDecommissioned(error) == error = "decommissioned"

\* "decommissioned" in error_msg or "not found" in error_msg
ModelUnavailable(error) == error \in {"decommissioned", "not_found"}

\* variant: the try statement without its last clause, "except Exception"
ExceptClauseWithoutCatchAll(failure) ==
    CASE failure = "RateLimitError" -> "RateLimitError"
      [] failure = "APIError" -> "APIError"
      [] OTHER -> "none"

\* the except clause of the try statement that takes a failure of the
\* remote call (groq.RateLimitError is tried before groq.APIError)
ExceptClause(failure) ==
    CASE failure = "RateLimitError" -> "RateLimitError"
      [] failure = "APIError" -> "APIError"
      [] OTHER -> "Exception"

\* variant: the lookup of line 108 never finds an entry
CacheNeverHit(key, store) == FALSE

\* line 108: cache_id in self.response_cache
CacheHit(key, store) == key \in DOMAIN store

\* variant: max_tokens and context are part of the identifier
EntryKeyWithBudget(list, objs, tokens, label) ==
    CatAll(<<CacheKeyOf(list, objs), Rep("1", tokens), Label(label)>>)

\* line 107, cache_id = self._generate_cache_id(messages): of the arguments
\* of the call only the message list enters the identifier
EntryKey(list, objs, tokens, label) == CacheKeyOf(list, objs)

\* entry of _execute_groq_call (lines 103-115) with a freshly built message
\* list: the empty-list return, the cache lookup, the copy and the clause
ExecEnter(msgs, tokens, label) ==
    LET list == [i \in 1 .. Len(msgs) |-> i]
        key  == EntryKey(list, msgs, tokens, label)
        copy == ShallowCopy(list, msgs)
    IN  /\ max_tokens' = tokens
        /\ context' = label
        /\ entry_messages' = msgs
        /\ messages' = list
        /\ model_index' = 0
        /\ attempt' = 0
        /\ cache' = cache
        /\ IF msgs = <<>>
           THEN /\ result' = NoInputText(label)
                /\ exit' = "no_input"
                /\ pc' = "agent_return"
                /\ cache_id' = <<>>
                /\ enhanced_messages' = <<>>
                /\ objects' = msgs
           ELSE IF CacheHit(key, cache)
           THEN /\ result' = cache[key]
                /\ exit' = "cache_hit"
                /\ pc' = "agent_return"
                /\ cache_id' = key
                /\ enhanced_messages' = <<>>
                /\ objects' = msgs
           ELSE /\ result' = <<>>
                /\ exit' = "running"
                /\ pc' = "attempt"
                /\ cache_id' = key
                /\ enhanced_messages' = copy.list
                /\ objects' = AppendClause(copy.list, copy.objects)

\* variant: "break" where the code has "continue"
GiveUpOnModel ==
    /\ attempt' = 0
    /\ model_index' = model_index + 1

\* variant: the attempts on one model start over instead of ending
RetryWithoutEnd ==
    /\ attempt' = (attempt + 1) % AttemptsPerModel
    /\ model_index' = model_index

\* "continue", or the fall through to the next iteration of the inner loop
NextAttempt ==
    IF attempt + 1 < AttemptsPerModel
    THEN /\ attempt' = attempt + 1
         /\ model_index' = model_index
    ELSE /\ attempt' = 0
         /\ model_index' = model_index + 1

\* "break": on to the next model
NextModel ==
    /\ attempt' = 0
    /\ model_index' = model_index + 1

\* the thread is about to invoke the remote service
Invoking == pc = "attempt" /\ model_index < NumModels

\* what every remote invocation leaves alone
InvokeFrame ==
    /\ run_remote' = TRUE
    /\ UNCHANGED << stage, served, run_locals, objects, messages, enhanced_messages,
                    entry_messages, max_tokens, context, cache_id, cache_before,
                    call_log, inter_call_sleep, run_exits, previous, probe >>

\* lines 125-140: the remote call returns a response; raw is the content of
\* its first choice (empty for no choice or no content)
RemoteResponds(raw) ==
    /\ Invoking
    /\ InvokeFrame
    /\ IF Accepts(raw)
       THEN /\ cache' = (cache_id :> Strip(raw)) @@ cache
            /\ answered' = (entry_messages :> Strip(raw)) @@ answered
            /\ stored_by' = (cache_id :> [tokens |-> max_tokens, label |-> context])
                            @@ stored_by
            /\ result' = Strip(raw)
            /\ exit' = "accepted"
            /\ pc' = "agent_return"
            /\ UNCHANGED << model_index, attempt >>
            /\ trace' = Invoked("accepted", 0)
       ELSE /\ NextAttempt
            /\ trace' = Invoked("rejected", 0)
            /\ UNCHANGED << cache, answered, stored_by, result, exit, pc >>
    /\ UNCHANGED run_slept

\* a failure of the remote call that no except clause takes leaves
\* _execute_groq_call as an exception
Propagate(failure) ==
    /\ exit' = "raised"
    /\ pc' = "agent_return"
    /\ trace' = Invoked(failure, 0)
    /\ UNCHANGED << cache, answered, stored_by, result, model_index, attempt, run_slept >>

\* lines 142-146: the call raises groq.RateLimitError
RemoteRateLimit ==
    /\ Invoking
    /\ InvokeFrame
    /\ IF ExceptClause("RateLimitError") = "RateLimitError"
       THEN /\ run_slept' = TRUE
            /\ trace' = Invoked("rate_limit", RateLimitWait(attempt, model_index))
            /\ NextAttempt
            /\ UNCHANGED << cache, answered, stored_by, result, exit, pc >>
       ELSE Propagate("rate_limit")

\* lines 148-155: the call raises another groq.APIError with the given text
RemoteApiError(error) ==
    /\ Invoking
    /\ InvokeFrame
    /\ IF ExceptClause("APIError") = "APIError"
       THEN /\ IF ModelUnavailable(error)
               THEN /\ NextModel
                    /\ trace' = Invoked(error, 0)
                    /\ UNCHANGED run_slept
               ELSE /\ NextAttempt
                    /\ trace' = Invoked(error, ApiErrorWait(attempt))
                    /\ run_slept' = TRUE
            /\ UNCHANGED << cache, answered, stored_by, result, exit, pc >>
       ELSE Propagate(error)

\* lines 157-160: the call raises any other Exception
RemoteException ==
    /\ Invoking
    /\ InvokeFrame
    /\ IF ExceptClause("Exception") = "Exception"
       THEN /\ run_slept' = TRUE
            /\ trace' = Invoked("exception", UnexpectedWait(attempt))
            /\ NextAttempt
            /\ UNCHANGED << cache, answered, stored_by, result, exit, pc >>
       ELSE Propagate("exception")

\* lines 162-175: both loops are exhausted
ReturnFallback ==
    /\ pc = "attempt"
    /\ model_index = NumModels
    /\ result' = FallbackText(context)
    /\ exit' = "fallback"
    /\ UNCHANGED << run_exits, previous >>
    /\ pc' = "agent_return"
    /\ UNCHANGED << stage, served, run_locals, cache, executor_locals, run_remote,
                    run_slept, trace, cache_before, answered, stored_by, call_log,
                    inter_call_sleep, probe >>

\* ------------------------------------------------------------ orchestrator

\* a str argument, and an argument that is a truthy object of another type
StrArg(v) == [is_str |-> TRUE, v |-> v]
NotStrArg == [is_str |-> FALSE, v |-> <<>>]

\* the arguments of one call of an entry point
Request(entry, q, t) == [entry |-> entry, query |-> q, targets |-> t]

\* completion bars of the sections (lengths are exclusive bounds)
MarketBar == 300
CompetitiveBar == 300
RiskBar == 200
RecommendationsBar == 4
ExecutiveBar == 200
\* time.sleep(3) between the agents
InterCallDelay == 3
\* targets kept from targets_input, and the max_chars of a target
MaxTargets == 8
MaxTargetChars == 100
\* a target is kept when its sanitized length exceeds this
MinTargetLen == 2

RECURSIVE KeepTargets(_)
\* lines 459-460 over the stripped pieces: sanitize the non-empty ones,
\* keep those longer than 2
KeepTargets(raw) ==
    IF raw = <<>> THEN <<>>
    ELSE LET t == CleanInput(Head(raw), MaxTargetChars)
         IN  (IF Head(raw) # <<>> /\ StrLen(t) > MinTargetLen THEN <<t>> ELSE <<>>)
             \o KeepTargets(Tail(raw))

\* lines 456-460: the target list of a str targets_input
ProcessTargets(targets_input) ==
    IF targets_input # <<>> /\ Strip(targets_input) # <<>>
    THEN LET pieces == SplitBy(targets_input, ",")
             raw == [i \in 1 .. Len(pieces) |-> Strip(pieces[i])]
         IN  KeepTargets(Prefix(raw, MaxTargets))
    ELSE <<>>

RECURSIVE StripAndDrop(_)
\* [str(t).strip() for t in targets if str(t).strip()]
StripAndDrop(tgts) ==
    IF tgts = <<>> THEN <<>>
    ELSE (IF Strip(Head(tgts)) # <<>> THEN <<Strip(Head(tgts))>> ELSE <<>>)
         \o StripAndDrop(Tail(tgts))

\* BusinessReport(query=query, targets=targets) after __post_init__
BusinessReport(q, tgts) ==
    [query |-> Strip(q),
     targets |-> StripAndDrop(tgts),
     market_intelligence |-> <<>>,
     competitive_landscape |-> <<>>,
     risk_evaluation |-> <<>>,
     strategic_actions |-> <<>>,
     executive_briefing |-> <<>>,
     analysis_quality |-> 0,
     processing_duration |-> 0,
     completion_status |-> <<>>]

\* sum(report.completion_status.values())
RECURSIVE CountTrue(_)
CountTrue(status) ==
    IF DOMAIN status = {} THEN 0
    ELSE LET k == CHOOSE x \in DOMAIN status : TRUE
         IN  (IF status[k] THEN 1 ELSE 0)
             + CountTrue([x \in DOMAIN status \ {k} |-> status[x]])

\* lines 545-546, in thousandths: the share of true flags times 0.6
CompletenessScore(rep) ==
    (CountTrue(rep.completion_status) * 600) \div Cardinality(DOMAIN rep.completion_status)

\* lines 549-554: content_quality * 0.25
ContentScore(rep) ==
    (IF Len(rep.strategic_actions) >= 6 THEN 125 ELSE 0)
    + (IF StrLen(Strip(rep.executive_briefing)) > 300 THEN 125 ELSE 0)

\* lines 557-560: the credit for the processing duration
PerformanceScore(rep) ==
    IF 0 < rep.processing_duration /\ rep.processing_duration <= 60
    THEN 150
    ELSE IF rep.processing_duration <= 120 THEN 100 ELSE 0

\* variant: the shares are added without their weights and without the cap
QualityScoreUnweighted(rep) ==
    IF DOMAIN rep.completion_status = {} THEN 750
    ELSE (CountTrue(rep.completion_status) * 1000) \div Cardinality(DOMAIN rep.completion_status)
         + 4 * ContentScore(rep) + PerformanceScore(rep)

\* _calculate_quality_score in thousandths (0.6 -> 600); 750 is the default
\* of its except clause, reached when completion_status is empty
QualityScore(rep) ==
    IF DOMAIN rep.completion_status = {} THEN 750
    ELSE LET total == CompletenessScore(rep) + ContentScore(rep) + PerformanceScore(rep)
         IN  IF total < 1000 THEN total ELSE 1000

\* what the entry point hands back: the kind of report, the status line and
\* its numbers, or an exception that reached the caller
Returned(kind, status, rep) ==
    [kind |-> kind, status |-> status, raised |-> FALSE,
     duration |-> rep.processing_duration, quality |-> rep.analysis_quality,
     completed |-> CountTrue(rep.completion_status),
     total |-> Cardinality(DOMAIN rep.completion_status)]

RaisedToCaller ==
    [kind |-> "exception", status |-> "", raised |-> TRUE,
     duration |-> 0, quality |-> 0, completed |-> 0, total |-> 0]

NoResponse == Returned("none", "", BusinessReport(<<>>, <<>>))

\* variant: execute_complete_analysis without its except clause
OrchestratorCatchesNothing(exception) == FALSE

\* "except Exception" of execute_complete_analysis (line 504) takes it
OrchestratorCatches(exception) == TRUE

\* "except Exception" of production_analysis_handler (line 706) takes it
HandlerCatches(exception) == TRUE

\* where an exception raised inside the try block of execute_complete_analysis
\* ends: its own error report, the handler's error report, or the caller
OrchestratorFailure(entry, exception, rep) ==
    IF OrchestratorCatches(exception)
    THEN Returned("analysis_error", "Analysis failed: ...", rep)
    ELSE IF entry = "handler" /\ HandlerCatches(exception)
    THEN Returned("handler_error", "Production Error: ...", rep)
    ELSE RaisedToCaller

\* where an exception raised by the handler's own validation ends
HandlerFailure(exception, rep) ==
    IF HandlerCatches(exception)
    THEN Returned("handler_error", "Production Error: ...", rep)
    ELSE RaisedToCaller

\* the test of line 689, for a str query
HandlerRejects(q) == q = <<>> \/ StrLen(Strip(q)) < HandlerMinQuery

\* variant: line 439 without its length test
RejectsEmptyOnly(q) == q = <<>>

\* the test of line 439, for a str query
OrchestratorRejects(q) == q = <<>> \/ StrLen(Strip(q)) < OrchestratorMinQuery

\* the executor's variables while no call of it is on the stack
ExecutorIdle ==
    /\ objects' = <<>>
    /\ messages' = <<>>
    /\ enhanced_messages' = <<>>
    /\ entry_messages' = <<>>
    /\ max_tokens' = 0
    /\ context' = "none"
    /\ cache_id' = <<>>
    /\ model_index' = 0
    /\ attempt' = 0

\* no request was served before, or not one whose five calls were accepted
NoneBefore ==
    [accepted |-> FALSE, query |-> <<>>, targets |-> <<>>, sections |-> <<>>,
     strategic_actions |-> <<>>, completion_status |-> <<>>]

\* what is kept of the request that has just been answered when the next
\* one arrives: its arguments, its five texts, its recommendations and its
\* flags, if all five of its executor calls were accepted
Delivered ==
    IF pc = "returned" /\ response.kind = "report"
       /\ run_exits = [i \in 1 .. 5 |-> "accepted"]
    THEN [accepted |-> TRUE, query |-> request.query, targets |-> request.targets,
          sections |-> << report.market_intelligence, report.competitive_landscape,
                         report.risk_evaluation, recommendations,
                         report.executive_briefing >>,
          strategic_actions |-> report.strategic_actions,
          completion_status |-> report.completion_status]
    ELSE NoneBefore

\* one call of the entry point with the given arguments, up to the first
\* agent: the handler's validation (lines 687-704) when entered through it,
\* then lines 435-463 of execute_complete_analysis
Serve(entry, q, t) ==
    /\ served' = served + 1
    /\ request' = Request(entry, q, t)
    /\ run_remote' = FALSE
    /\ run_slept' = FALSE
    /\ recommendations' = <<>>
    /\ result' = <<>>
    /\ exit' = "none"
    /\ ExecutorIdle
    /\ cache_before' = cache
    /\ call_log' = <<>>
    /\ inter_call_sleep' = 0
    /\ run_exits' = <<>>
    /\ previous' = Delivered
    /\ UNCHANGED << cache, trace, answered, stored_by, probe >>
    /\ LET blank == BusinessReport(<<>>, <<>>)
           finish(resp) == /\ response' = resp
                           /\ pc' = "returned"
                           /\ stage' = "none"
                           /\ query' = <<>>
                           /\ targets' = <<>>
                           /\ report' = blank
       IN  IF entry = "handler" /\ ~q.is_str
           THEN finish(HandlerFailure("AttributeError", blank))
           ELSE IF entry = "handler" /\ HandlerRejects(q.v)
           THEN finish(Returned("handler_validation",
                                "Validation Failed: Insufficient query specificity", blank))
           ELSE IF ~q.is_str
           THEN finish(OrchestratorFailure(entry, "AttributeError", blank))
           ELSE IF OrchestratorRejects(q.v)
           THEN finish(Returned("validation",
                                "Input validation failed: Query insufficient", blank))
           ELSE IF ~t.is_str
           THEN finish(OrchestratorFailure(entry, "AttributeError", blank))
           ELSE /\ query' = CleanInput(q.v, DefaultMaxChars)
                /\ targets' = ProcessTargets(t.v)
                /\ report' = BusinessReport(query', targets')
                /\ response' = NoResponse
                /\ stage' = "market"
                /\ pc' = "agent"

\* the intelligence_context of line 477
AnalysisContext(rep) ==
    CatAll(<<Take(rep.market_intelligence, 500), Rep(" ", 1),
             Take(rep.competitive_landscape, 500)>>)

\* the agent of the current section runs up to its executor call: the
\* query is sanitized again, too short a query returns at once, otherwise
\* the prompt is built and _execute_groq_call is entered
StartAgent ==
    /\ pc = "agent"
    /\ LET q == CleanInput(query, DefaultMaxChars)
           synthesis == Synthesis(report.market_intelligence,
                                  report.competitive_landscape, report.risk_evaluation)
       IN  IF stage # "summary" /\ StrLen(q) < AgentMinQuery
           THEN /\ result' = InsufficientText(stage)
                /\ exit' = "insufficient"
                /\ pc' = "agent_return"
                /\ stage' = IF stage = "recommendations" THEN "summary" ELSE stage
                /\ UNCHANGED << cache, executor_locals, call_log >>
           ELSE /\ CASE stage = "market" ->
                         ExecEnter(MarketMessages(q, targets),
                                   SectionTokens("market"), "market_intelligence")
                      [] stage = "competitive" ->
                         ExecEnter(CompetitiveMessages(q, targets),
                                   SectionTokens("competitive"), "competitive_intelligence")
                      [] stage = "risk" ->
                         ExecEnter(RiskMessages(q, AnalysisContext(report)),
                                   SectionTokens("risk"), "risk_assessment")
                      [] stage = "recommendations" ->
                         ExecEnter(RecommendationMessages(q, synthesis),
                                   SectionTokens("recommendations"),
                                   "strategic_recommendations")
                      [] stage = "summary" ->
                         ExecEnter(SummaryMessages(q, synthesis, Len(recommendations)),
                                   SectionTokens("summary"), "executive_summary")
                /\ call_log' = Append(call_log, context')
                /\ UNCHANGED stage
    /\ UNCHANGED << served, run_locals, run_remote, run_slept, trace, cache_before,
                    answered, stored_by, inter_call_sleep, run_exits, previous, probe >>

\* processing durations (whole seconds) that time.time() may yield at the
\* end of a run; the three inter-call delays alone take nine seconds
Durations == {9, 60, 61, 120, 121}

\* lines 489-502 once the summary is there: the last two flags, the
\* duration, the score, the report and the status
Complete(rep, recs, briefing, duration) ==
    LET filled == [rep EXCEPT
                     !.strategic_actions = recs,
                     !.executive_briefing = briefing,
                     !.completion_status =
                         ("executive" :> (StrLen(Strip(briefing)) > ExecutiveBar))
                         @@ ("recommendations" :> (Len(recs) >= RecommendationsBar))
                         @@ rep.completion_status,
                     !.processing_duration = duration]
    IN  [filled EXCEPT !.analysis_quality = QualityScore(filled)]

\* variant: a section counts as complete as soon as it has any text
SectionNonEmpty(section, text) == Strip(text) # <<>>

\* the section flag set after the agent of a section returned text
SectionComplete(section, text) ==
    CASE section = "market" -> StrLen(Strip(text)) > MarketBar
      [] section = "competitive" -> StrLen(Strip(text)) > CompetitiveBar
      [] section = "risk" -> StrLen(Strip(text)) > RiskBar

\* the report after the agent of one of the first three sections returned
Filled(rep, section, text) ==
    [rep EXCEPT
       !.market_intelligence = IF section = "market" THEN text ELSE @,
       !.competitive_landscape = IF section = "competitive" THEN text ELSE @,
       !.risk_evaluation = IF section = "risk" THEN text ELSE @,
       !.completion_status = (section :> SectionComplete(section, text)) @@ @]

\* variant: the run goes from one agent to the next without a pause
NoDelayAfter(section) == 0

\* the time.sleep(3) of lines 469, 474 and 480, after each of the first
\* three agents; the two calls of strategic_advisor_agent follow each other
\* directly
DelayAfter(section) ==
    IF section \in {"market", "competitive", "risk"} THEN InterCallDelay ELSE 0

\* the section after a section
Following(section) ==
    CASE section = "market" -> "competitive"
      [] section = "competitive" -> "risk"
      [] section = "risk" -> "recommendations"
      [] section = "recommendations" -> "summary"

\* the orchestrator takes what the agent returned (lines 467-502): the
\* section and its flag, the delay, and after the summary the final report;
\* an exception out of the agent goes to the except clause of line 504
FinishStage ==
    /\ pc = "agent_return"
    /\ stage \in {"market", "competitive", "risk", "recommendations", "summary"}
    /\ IF exit = "raised"
       THEN /\ response' = OrchestratorFailure(request.entry, "remote", report)
            /\ pc' = "returned"
            /\ inter_call_sleep' = 0
            /\ UNCHANGED << stage, report, recommendations, run_slept >>
       ELSE IF stage \in {"market", "competitive", "risk"}
       THEN /\ report' = Filled(report, stage, result)
            /\ run_slept' = TRUE
            /\ inter_call_sleep' = DelayAfter(stage)
            /\ stage' = Following(stage)
            /\ pc' = "agent"
            /\ UNCHANGED << response, recommendations >>
       ELSE IF stage = "recommendations"
       THEN /\ recommendations' = ParseRecommendations(result)
            /\ inter_call_sleep' = DelayAfter(stage)
            /\ stage' = Following(stage)
            /\ pc' = "agent"
            /\ UNCHANGED << response, report, run_slept >>
       ELSE \E duration \in Durations :
            /\ report' = Complete(report, recommendations, result, duration)
            /\ response' = Returned("report", "Complete analysis delivered", report')
            /\ pc' = "returned"
            /\ inter_call_sleep' = 0
            /\ UNCHANGED << stage, recommendations, run_slept >>
    /\ run_exits' = Append(run_exits, exit)
    /\ ExecutorIdle
    /\ UNCHANGED << served, request, query, targets, cache, result, exit, run_remote,
                    trace, cache_before, answered, stored_by, call_log, previous,
                    probe >>

\* ------------------------------------------------------------ environment

\* requests served by one system instance
MaxRuns == 2
\* direct executor calls on one system instance
MaxCalls == 3

Letters(n) == Rep("a", n)

\* a well-formed query
PlainQuery == Letters(12)
\* twelve characters, six of them removed by the sanitizer
HalfCleanQuery == Cat(Letters(6), Rep("\\", 6))
\* twelve characters, all removed by the sanitizer
DisallowedQuery == Rep("\\", 12)
\* ten characters of which seven remain after trimming
PaddedQuery == CatAll(<<Rep(" ", 2), Letters(7), Rep(" ", 1)>>)

\* queries that do not get past the validation, or leave nothing to analyse
ShortQueries ==
    { StrArg(<<>>), StrArg(Letters(2)), StrArg(Letters(9)), StrArg(PaddedQuery),
      StrArg(DisallowedQuery), NotStrArg }

\* "abc, ab,  abcd": three targets, the second too short to be kept
TargetList ==
    CatAll(<<Letters(3), Rep(",", 1), Rep(" ", 1), Letters(2), Rep(",", 1), Rep(" ", 2),
             Letters(4)>>)

TargetInputs == { StrArg(<<>>), StrArg(TargetList), NotStrArg }

Entries == {"handler", "orchestrator"}

\* the calls made: every short query with every targets value at both entry
\* points, the plain query with targets that are no str, and two requests
\* that run all agents
Requests ==
    { Request(e, q, t) : e \in Entries, q \in ShortQueries, t \in TargetInputs }
    \cup { Request(e, StrArg(PlainQuery), NotStrArg) : e \in Entries }
    \cup { Request("handler", StrArg(PlainQuery), StrArg(<<>>)),
           Request("orchestrator", StrArg(HalfCleanQuery), StrArg(TargetList)) }

\* a numbered line of a response: "1. " and n letters
NumberedLine(n) == CatAll(<<Rep("1", 1), Rep(".", 1), Rep(" ", 1), Letters(n)>>)
\* three numbered recommendations, 161 characters: accepted by the
\* executor, below the bar of every section
BriefText == Join(Rep("\n", 1), [i \in 1 .. 3 |-> NumberedLine(50)])
\* six numbered recommendations, 383 characters, with white space around
LongText ==
    CatAll(<<Rep(" ", 1), Join(Rep("\n", 1), [i \in 1 .. 6 |-> NumberedLine(60)]),
             Rep("\n", 1)>>)
\* exactly at the quality threshold
ShortText == Letters(MinQuality)
\* longer than the threshold only with its surrounding whitespace
PaddedText == CatAll(<<Rep(" ", 5), Letters(MinQuality), Rep("\n", 2)>>)

\* contents of the first choice of a remote response (<<>>: none)
RemoteResponses == { BriefText, ShortText, PaddedText, <<>> }
\* the same for a directly driven executor call
DirectResponses == RemoteResponses \cup { LongText }

\* texts of a groq.APIError
ErrorTexts == {"decommissioned", "not_found", "server_error"}

\* the market messages for the plain query, the same list with the
\* accuracy clause already in its first message, and the empty list
DirectMessages ==
    LET m == MarketMessages(PlainQuery, <<>>)
    IN  { m, [m EXCEPT ![1].content = Cat(@, AccuracyClause)], <<>> }

\* max_tokens and context of a direct call
DirectBudgets ==
    { [tokens |-> SectionTokens("market"), label |-> "market_intelligence"],
      [tokens |-> SectionTokens("summary"), label |-> "executive_summary"] }

\* the system after FinalGroqSystem.__init__, before any call
Constructed ==
    /\ pc = "idle"
    /\ stage = "none"
    /\ served = 0
    /\ request = Request("none", StrArg(<<>>), StrArg(<<>>))
    /\ query = <<>>
    /\ targets = <<>>
    /\ report = BusinessReport(<<>>, <<>>)
    /\ recommendations = <<>>
    /\ response = NoResponse
    /\ cache = <<>>
    /\ objects = <<>>
    /\ messages = <<>>
    /\ enhanced_messages = <<>>
    /\ entry_messages = <<>>
    /\ max_tokens = 0
    /\ context = "none"
    /\ cache_id = <<>>
    /\ model_index = 0
    /\ attempt = 0
    /\ result = <<>>
    /\ exit = "none"
    /\ run_remote = FALSE
    /\ run_slept = FALSE
    /\ trace = NoTrace
    /\ cache_before = <<>>
    /\ answered = <<>>
    /\ stored_by = <<>>
    /\ call_log = <<>>
    /\ inter_call_sleep = 0
    /\ run_exits = <<>>
    /\ previous = NoneBefore

\* no function is called on its own
NoProbe == [fn |-> "none", args |-> <<>>, value |-> <<>>, done |-> FALSE]

Init == Constructed /\ probe = NoProbe

\* a request to the instance, the first or one after an answer
SubmitRequest ==
    /\ pc \in {"idle", "returned"}
    /\ served < MaxRuns
    /\ \E r \in Requests : Serve(r.entry, r.query, r.targets)

\* a call of _execute_groq_call on its own, as a test of the executor makes
DirectCall ==
    /\ pc \in {"idle", "agent_return"}
    /\ served < MaxCalls
    /\ \E msgs \in DirectMessages, budget \in DirectBudgets :
          ExecEnter(msgs, budget.tokens, budget.label)
    /\ stage' = "direct"
    /\ served' = served + 1
    /\ run_remote' = FALSE
    /\ run_slept' = FALSE
    /\ trace' = NoTrace
    /\ cache_before' = cache
    /\ run_exits' = <<>>
    /\ UNCHANGED previous
    /\ UNCHANGED << run_locals, answered, stored_by, call_log, inter_call_sleep, probe >>

RemoteReturns == \E raw \in RemoteResponses : RemoteResponds(raw)

DirectRemoteReturns == \E raw \in DirectResponses : RemoteResponds(raw)

RemoteApiFails == \E error \in ErrorTexts : RemoteApiError(error)

\* requests through the entry point
Next ==
    \/ SubmitRequest
    \/ StartAgent
    \/ RemoteReturns
    \/ RemoteRateLimit
    \/ RemoteApiFails
    \/ RemoteException
    \/ ReturnFallback
    \/ FinishStage

Spec == Init /\ [][Next]_vars

\* where the thread of a run stands
position == << pc, model_index, attempt >>

\* the places of a thread
Places == {"idle", "agent", "attempt", "agent_return", "returned"}

\* the thread of a run moves on: an agent reaches its executor call or
\* returns, an attempt ends, a stage is finished
Advance ==
    /\ pc \in {"agent", "attempt", "agent_return"}
    /\ \E p \in Places, m \in 0 .. NumModels, a \in 0 .. AttemptsPerModel - 1 :
          /\ pc' = p
          /\ model_index' = m
          /\ attempt' = a

\* the same requests when the thread of a run never stops for ever: each
\* remote invocation and each sleep returns, and the interpreter goes on
SpecLive == Init /\ [][Next]_vars /\ WF_position(Advance)

\* direct calls of the executor
NextExec ==
    \/ DirectCall
    \/ DirectRemoteReturns
    \/ RemoteRateLimit
    \/ RemoteApiFails
    \/ RemoteException
    \/ ReturnFallback

SpecExec == Init /\ [][NextExec]_vars

\* ------------------------------------------------------------ functions
\* called on their own

\* every variable but probe
program_vars ==
    << pc, stage, served, request, query, targets, report, recommendations, response,
       cache, objects, messages, enhanced_messages, entry_messages, max_tokens,
       context, cache_id, model_index, attempt, result, exit, run_remote, run_slept,
       trace, cache_before, answered, stored_by, call_log, inter_call_sleep, run_exits,
       previous >>

\* a call of function fn with arguments args that has not returned yet
Call(fn, args) == [fn |-> fn, args |-> args, value |-> <<>>, done |-> FALSE]

\* the call of the probe returns value
Return(value) ==
    /\ probe' = [probe EXCEPT !.value = value, !.done = TRUE]
    /\ UNCHANGED program_vars

\* the call of fn has returned
Done(fn) == probe.fn = fn /\ probe.done

\* all sequences over items of length 1 .. k
SeqsUpTo(items, k) == UNION { [1 .. n -> items] : n \in 1 .. k }

\* entries of a targets input: empty, too short, just long enough, padded,
\* two letters left by the sanitizer, cut by the sanitizer inside its white
\* space after two and after three letters, and cut inside its letters
TargetEntries ==
    { <<>>, Letters(2), Letters(3),
      CatAll(<<Rep(" ", 1), Letters(3), Rep(" ", 1)>>),
      Cat(Letters(2), Rep("\\", 2)),
      CatAll(<<Letters(2), Rep(" ", 98), Letters(2)>>),
      CatAll(<<Letters(3), Rep(" ", 97), Letters(2)>>),
      Letters(150) }

\* most entries of a generated targets input
MaxEntries == 2

\* targets inputs: the entries joined by commas, and ten entries
TargetsInputs ==
    { Join(Rep(",", 1), e) : e \in SeqsUpTo(TargetEntries, MaxEntries) }
    \cup { Join(Rep(",", 1), [i \in 1 .. 10 |-> Letters(3)]),
           Join(Rep(",", 1), [i \in 1 .. 10 |-> Letters(i)]) }

InitTargets ==
    /\ Constructed
    /\ \E t \in TargetsInputs : probe = Call("targets", t)

\* lines 455-463 of execute_complete_analysis: the target list and the
\* report made from it
BuildTargets ==
    /\ probe.fn = "targets"
    /\ ~probe.done
    /\ LET tgts == ProcessTargets(probe.args)
       IN  Return([targets |-> tgts, report |-> BusinessReport(PlainQuery, tgts)])

SpecTargets == InitTargets /\ [][BuildTargets]_vars

\* the keys of completion_status
StatusKeys == {"market", "competitive", "risk", "recommendations", "executive"}

\* completion_status: every assignment of the five flags, and the empty dict
StatusInputs == [StatusKeys -> BOOLEAN] \cup {<<>>}

\* the longest processing duration, in seconds
MaxDuration == 100000

\* processing durations around the limits of the performance credit
ScoreDurations == {0, 1, 60, 61, 120, 121, MaxDuration}

\* reports handed to _calculate_quality_score: the flags, 0 to 8
\* recommendations, a briefing of no, 300 or (padded) 301 characters, and
\* the duration
ScoreInputs ==
    { [BusinessReport(PlainQuery, <<>>) EXCEPT
          !.completion_status = st,
          !.strategic_actions = [i \in 1 .. n |-> Letters(30)],
          !.executive_briefing = b,
          !.processing_duration = d] :
      st \in StatusInputs, n \in {0, 5, 6, 8},
      b \in {<<>>, Letters(300), CatAll(<<Rep(" ", 2), Letters(301), Rep("\n", 1)>>)},
      d \in ScoreDurations }

InitScore ==
    /\ Constructed
    /\ \E rep \in ScoreInputs : probe = Call("score", rep)

\* _calculate_quality_score(report)
CalculateQualityScore ==
    /\ probe.fn = "score"
    /\ ~probe.done
    /\ Return(QualityScore(probe.args))

SpecScore == InitScore /\ [][CalculateQualityScore]_vars

\* a sentence of n + 21 characters with an action verb ending at letter n + 1
VerbLine(n) == CatAll(<<Letters(n), Rep("v", 1), Letters(20)>>)

\* "1. Develop a new channel strategy for enterprise clients" and
\* "2. Expand into APAC markets": the verbs end at their seventh and sixth
\* letter, the items have 53 and 24 characters
TwoNumberedItems ==
    Join(Rep("\n", 1),
         << CatAll(<<Rep("1", 1), Rep(".", 1), Rep(" ", 1), Letters(6), Rep("v", 1),
                     Rep(" ", 1), Letters(45)>>),
            CatAll(<<Rep("1", 1), Rep(".", 1), Rep(" ", 1), Letters(5), Rep("v", 1),
                     Rep(" ", 1), Letters(17)>>) >>)

\* lines of a response: numbered items without and with an action verb, a
\* numbered item that is too short, a bullet item, sentences with an action
\* verb (one too short, one too long), a sentence without one, a blank line
ParseLines ==
    { NumberedLine(30),
      CatAll(<<Rep("1", 2), Rep(")", 1), VerbLine(9)>>),
      CatAll(<<Rep("1", 1), Rep(")", 1), Rep(" ", 1), Letters(MinItemLen)>>),
      CatAll(<<Rep("-", 1), Rep(" ", 1), Letters(MinItemLen + 1)>>),
      CatAll(<<Rep(" ", 1), VerbLine(10), Rep(" ", 2)>>),
      VerbLine(3),
      VerbLine(MaxActionLen),
      Letters(40),
      Rep(" ", 2) }

\* most lines of a generated response
MaxLines == 2

\* texts handed to the parser: the empty text, the lines joined by line
\* breaks, the two numbered items, ten numbered items, four numbered items
\* with action verbs, three numbered items among ten sentences with action
\* verbs
ParseInputs ==
    { <<>>, TwoNumberedItems }
    \cup { Join(Rep("\n", 1), l) : l \in SeqsUpTo(ParseLines, MaxLines) }
    \cup { Join(Rep("\n", 1), [i \in 1 .. 10 |-> NumberedLine(20 + i)]),
           Join(Rep("\n", 1), [i \in 1 .. 4 |-> Cat(NumberedLine(1), VerbLine(5 + i))]),
           Join(Rep("\n", 1), [i \in 1 .. 13 |->
                                  IF i % 4 = 0 THEN NumberedLine(20 + i)
                                  ELSE VerbLine(5 + i)]) }

InitParse ==
    /\ Constructed
    /\ \E text \in ParseInputs : probe = Call("parse", text)

\* _parse_recommendations(text)
Parse ==
    /\ probe.fn = "parse"
    /\ ~probe.done
    /\ Return(ParseRecommendations(probe.args))

SpecParse == InitParse /\ [][Parse]_vars

\* pieces of a text: letters, blanks, a backslash, a bullet, a line break
\* and a hyphen
TextPieces ==
    { Letters(2), Rep(" ", 2), Rep("\\", 1), Rep("bullet", 1), Rep("\n", 1), Rep("-", 1) }

\* most pieces of a generated text
MaxPieces == 3

\* values of the parameter max_chars
CleanLimits == {0, 1, 2, 3, 5, DefaultMaxChars}

\* arguments of _clean_input: the empty text, texts made of the pieces, a
\* value that is no str
CleanInputs ==
    { StrArg(<<>>), NotStrArg }
    \cup { StrArg(CatAll(t)) : t \in SeqsUpTo(TextPieces, MaxPieces) }

\* _clean_input for any argument: "" when it is no str
CleanInputOf(arg, max_chars) ==
    IF ~arg.is_str THEN <<>> ELSE CleanInput(arg.v, max_chars)

InitClean ==
    /\ Constructed
    /\ \E t \in CleanInputs, n \in CleanLimits :
          probe = Call("clean", [text |-> t, max_chars |-> n])

\* _clean_input(text, max_chars)
Clean ==
    /\ probe.fn = "clean"
    /\ ~probe.done
    /\ Return(CleanInputOf(probe.args.text, probe.args.max_chars))

SpecClean == InitClean /\ [][Clean]_vars

\* ------------------------------------------------------------ properties

\* the kinds of (report, status) pair the entry point returns
ReportKinds ==
    {"report", "validation", "handler_validation", "analysis_error", "handler_error"}

\* the sections of a run
Sections == {"market", "competitive", "risk", "recommendations", "summary"}

\* a directly driven executor call has returned
DirectReturned == stage = "direct" /\ pc = "agent_return"

\* C1: every call of the entry point, through the handler or not, for every
\* input and every sequence of remote outcomes, ends with a (report, status)
\* pair; no exception reaches the caller, and none leaves the executor
C1_RunAnalysisReturnsPair ==
    /\ exit # "raised"
    /\ pc = "returned" =>
          /\ ~response.raised
          /\ response.kind \in ReportKinds
          /\ response.status # ""

\* a run whose market stage ended in the fallback after remote failures and
\* back-off has returned its report
C1_Witness ==
    /\ pc = "returned"
    /\ response.kind = "report"
    /\ run_remote
    /\ run_slept
    /\ report.market_intelligence = FallbackText("market_intelligence")

\* C2: _execute_groq_call never fails: whatever the remote service does, the
\* call returns one of four texts (a cached response, an accepted response,
\* the "no input" message, the fallback) and raises nothing
C2_ExecutorNeverFails ==
    /\ exit # "raised"
    /\ DirectReturned =>
          /\ exit \in {"cache_hit", "accepted", "no_input", "fallback"}
          /\ result # <<>>
          /\ exit = "cache_hit" => result = cache[cache_id]
          /\ exit = "accepted" => result \in {Strip(raw) : raw \in DirectResponses}
          /\ exit = "no_input" => result = NoInputText(context)
          /\ exit = "fallback" => result = FallbackText(context)

\* a call whose last remote invocation raised an unclassified exception has
\* returned the fallback
C2_Witness ==
    /\ DirectReturned
    /\ exit = "fallback"
    /\ trace.last_outcome = "exception"

\* C3 as the specification states it: the identifier used for the lookup and
\* for storing is the fingerprint of the enhanced list, the one sent out
C3_KeyOfEnhancedMessages ==
    (stage = "direct" /\ exit \in {"running", "accepted", "fallback"}) =>
        cache_id = GenerateCacheId(JsonDumps(Deref(enhanced_messages, objects)))

\* C3 as the code has it: the identifier used for the lookup and for storing
\* is the fingerprint of the message list as it was passed to the call,
\* without the accuracy clause
C3_KeyOfGivenMessages ==
    (stage = "direct" /\ exit \in {"running", "accepted", "fallback", "cache_hit"}) =>
        /\ cache_id = GenerateCacheId(JsonDumps(entry_messages))
        /\ exit = "accepted" => cache_id \in DOMAIN cache /\ cache[cache_id] = result
        /\ exit = "cache_hit" => cache_id \in DOMAIN cache /\ cache[cache_id] = result

\* an accepted response is stored under the fingerprint of the given list,
\* which is not the fingerprint of what was sent
C3_Witness ==
    /\ DirectReturned
    /\ exit = "accepted"
    /\ cache_id = GenerateCacheId(JsonDumps(entry_messages))
    /\ cache_id # GenerateCacheId(JsonDumps(Deref(enhanced_messages, objects)))
    /\ cache_id \in DOMAIN cache

\* C4: after an executor call the caller's message list, the content of its
\* first message included, is what it was before the call
C4_CallerMessagesUnchanged ==
    DirectReturned => Deref(messages, objects) = entry_messages

\* C5: once a response was accepted for a message content, a later call with
\* the same content returns that text from the cache, without any remote
\* invocation
C5_CacheHitShortCircuits ==
    (stage = "direct" /\ pc \in {"attempt", "agent_return"} /\ exit # "accepted"
       /\ entry_messages \in DOMAIN answered) =>
        /\ pc = "agent_return"
        /\ exit = "cache_hit"
        /\ result = answered[entry_messages]
        /\ trace.calls = 0
        /\ ~run_remote
        /\ cache = cache_before

\* a second or later call was answered from the cache
C5_Witness ==
    /\ DirectReturned
    /\ served >= 2
    /\ exit = "cache_hit"
    /\ result = answered[entry_messages]
    /\ trace.calls = 0

\* C6: every cache value is an accepted remote response, of trimmed length
\* above 150 and never the fallback text; a call that ends in the fallback
\* or in the "no input" message leaves the cache as it found it
C6_OnlyAcceptedContentCached ==
    /\ \A k \in DOMAIN cache :
          /\ cache[k] \in {Strip(raw) : raw \in DirectResponses}
          /\ StrLen(Strip(cache[k])) > MinQuality
          /\ \A budget \in DirectBudgets : cache[k] # FallbackText(budget.label)
    /\ (DirectReturned /\ exit \in {"fallback", "no_input"}) => cache = cache_before

\* a call made with a filled cache ended in the fallback
C6_Witness ==
    /\ DirectReturned
    /\ exit = "fallback"
    /\ cache # <<>>
    /\ cache = cache_before

\* C7: a call whose remote invocations are all rate-limited makes
\* 3 x (number of models) = 9 of them, one per attempt in loop order, and
\* then returns the fallback text, which names the label
C7_RateLimitedExhaustion ==
    (stage = "direct" /\ trace.rate_limited_only /\ trace.calls > 0) =>
        /\ pc = "attempt" => trace.calls = model_index * AttemptsPerModel + attempt
        /\ pc = "agent_return" =>
              /\ exit = "fallback"
              /\ trace.calls = AttemptsPerModel * NumModels
              /\ trace.calls = 9
              /\ result = FallbackText(context)
              /\ \E i \in 1 .. Len(result) : result[i].c = context

\* a call returned the fallback after nine rate-limited invocations
C7_Witness ==
    /\ DirectReturned
    /\ exit = "fallback"
    /\ trace.rate_limited_only
    /\ trace.calls = 9

\* C8: after a failure that says the model is decommissioned or not found
\* the executor has not slept and stands at the first attempt of the next
\* model; if that was the last model the call can only end in the fallback
C8_UnavailableModelSkipped ==
    (stage = "direct" /\ trace.last_outcome \in {"decommissioned", "not_found"}) =>
        /\ trace.last_sleep = 0
        /\ model_index = trace.last_model + 1
        /\ attempt = 0
        /\ pc \in {"attempt", "agent_return"}
        /\ pc = "agent_return" => exit = "fallback" /\ trace.last_model = NumModels - 1
        /\ trace.last_model = NumModels - 1 => ~Invoking

\* the second attempt on the first model found it unavailable and the
\* executor turned to the second model
C8_Witness ==
    /\ stage = "direct"
    /\ pc = "attempt"
    /\ trace.last_outcome = "not_found"
    /\ trace.last_model = 0
    /\ trace.last_attempt = 1
    /\ model_index = 1

\* the minimum query length of an entry point
MinQueryOf(entry) == IF entry = "handler" THEN HandlerMinQuery ELSE OrchestratorMinQuery

\* C9: a query whose trimmed length is below the minimum of the entry point
\* (8 at the handler, 10 at the orchestrator) is answered with a validation
\* report and a status that says so, without remote invocation or sleep and
\* with the cache untouched
C9_ShortQueryRejected ==
    (pc = "returned" /\ request.query.is_str
       /\ StrLen(Strip(request.query.v)) < MinQueryOf(request.entry)) =>
        /\ response.kind \in {"validation", "handler_validation"}
        /\ response.status \in {"Input validation failed: Query insufficient",
                                "Validation Failed: Insufficient query specificity"}
        /\ ~run_remote
        /\ ~run_slept
        /\ cache = cache_before

\* the orchestrator rejected a query of two characters on an instance whose
\* cache an earlier request had filled
C9_Witness ==
    /\ pc = "returned"
    /\ request.entry = "orchestrator"
    /\ request.query = StrArg(Letters(2))
    /\ response.kind = "validation"
    /\ cache # <<>>

\* C10: a request that passed the validation carries a sanitized query of at
\* least ten characters, in the report and in the prompts
C10_SanitizedQueryAtLeastMinimum ==
    stage \in Sections =>
        /\ StrLen(query) >= OrchestratorMinQuery
        /\ StrLen(report.query) >= OrchestratorMinQuery

\* C11: for every targets input the target list of the request and of the
\* report has at most 8 entries, each of length at most 100 and of length
\* greater than 2 after trimming, entries cut by the sanitizer included
C11_TargetsWithinLimits ==
    Done("targets") =>
        \A ts \in {probe.value.targets, probe.value.report.targets} :
            /\ Len(ts) <= MaxTargets
            /\ \A i \in 1 .. Len(ts) :
                   /\ StrLen(ts[i]) <= MaxTargetChars
                   /\ StrLen(Strip(ts[i])) > MinTargetLen

\* an entry cut inside its white space is in the report with two letters
C11_Witness ==
    /\ Done("targets")
    /\ \E i \in 1 .. Len(probe.value.report.targets) :
           probe.value.report.targets[i] = Letters(2)

\* the context labels of the five executor calls of a run, in their order
AgentOrder ==
    << "market_intelligence", "competitive_intelligence", "risk_assessment",
       "strategic_recommendations", "executive_summary" >>

\* C12: in every run that passes the validation the executor is called for
\* market, competitive, risk, recommendations and summary in this order,
\* each exactly once and after the call before it returned; the risk prompt
\* is built when the market and competitive texts exist, the summary prompt
\* after the recommendations stage, whatever the remote service does
C12_FiveCallsInOrder ==
    /\ call_log = Prefix(AgentOrder, Len(call_log))
    /\ pc = "attempt" => context = call_log[Len(call_log)]
    /\ context = "risk_assessment" =>
          report.market_intelligence # <<>> /\ report.competitive_landscape # <<>>
    /\ context = "executive_summary" => stage = "summary"
    /\ pc = "returned" /\ response.kind = "report" => call_log = AgentOrder

\* a run that passed the validation has returned its report without any
\* executor call
C12_Witness ==
    /\ pc = "returned"
    /\ response.kind = "report"
    /\ call_log = <<>>

\* a run is under way: the validation is passed and no pair is returned yet
Running == pc \in {"agent", "attempt", "agent_return"}

\* C13: every started run ends with its (report, status) pair; when the
\* models are exhausted in a stage its section gets the fallback text and
\* the run goes on through the remaining stages
C13_RunEnds ==
    /\ Running ~> (pc = "returned" /\ response.kind = "report")
    /\ (Running /\ exit = "fallback") ~> (pc = "returned" /\ response.kind = "report")

\* a run whose market stage ended in the fallback has returned a report
\* whose later sections hold accepted responses
C13_Witness ==
    /\ pc = "returned"
    /\ response.kind = "report"
    /\ report.market_intelligence = FallbackText("market_intelligence")
    /\ report.risk_evaluation = BriefText
    /\ report.executive_briefing = BriefText

\* C14: the quality score is within [0, 1] (0 .. 1000 thousandths) for
\* every combination of completion flags, number of recommendations,
\* briefing length and duration, duration 0 and very long ones included
C14_ScoreWithinUnitInterval ==
    Done("score") => probe.value >= 0 /\ probe.value <= 1000

\* the score of a report with every flag true, six recommendations or
\* more, a long briefing and the longest duration
C14_Witness ==
    /\ Done("score")
    /\ probe.args.processing_duration = MaxDuration
    /\ CountTrue(probe.args.completion_status) = 5
    /\ Len(probe.args.strategic_actions) >= 6
    /\ probe.value = 850

\* C15: the duration share of the score is the full 0.15 for every
\* duration up to 60 seconds, 0 included, a partial credit above 60 and up
\* to 120 seconds, and nothing above 120 seconds
C15_DurationCredit ==
    Done("score") /\ DOMAIN probe.args.completion_status # {} =>
        LET d == probe.args.processing_duration
            credit == IF d <= 60 THEN 150 ELSE IF d <= 120 THEN 100 ELSE 0
            total == CompletenessScore(probe.args) + ContentScore(probe.args) + credit
        IN  probe.value = IF total < 1000 THEN total ELSE 1000

\* a report that took 0 seconds has got the partial credit
C15_Witness ==
    /\ Done("score")
    /\ probe.args.processing_duration = 0
    /\ CountTrue(probe.args.completion_status) = 5
    /\ probe.args.strategic_actions = <<>>
    /\ probe.args.executive_briefing = <<>>
    /\ probe.value = 700

\* the keys of the sections of a report that meet their bar
MeetingBar(rep) ==
    { k \in StatusKeys :
        CASE k = "market" -> StrLen(Strip(rep.market_intelligence)) > MarketBar
          [] k = "competitive" -> StrLen(Strip(rep.competitive_landscape)) > CompetitiveBar
          [] k = "risk" -> StrLen(Strip(rep.risk_evaluation)) > RiskBar
          [] k = "recommendations" -> Len(rep.strategic_actions) >= RecommendationsBar
          [] k = "executive" -> StrLen(Strip(rep.executive_briefing)) > ExecutiveBar }

\* C16: in the report of a finished run each of the five completion flags
\* equals its threshold on the text of its stage (market and competitive
\* more than 300 characters after trimming, risk and summary more than 200,
\* recommendations at least 4 parsed items), and the completeness share of
\* the score is 0.6 times the number of true flags over 5
C16_FlagsMatchThresholds ==
    pc = "returned" /\ response.kind = "report" =>
        /\ DOMAIN report.completion_status = StatusKeys
        /\ \A k \in StatusKeys : report.completion_status[k] = (k \in MeetingBar(report))
        /\ CompletenessScore(report) = 120 * Cardinality(MeetingBar(report))
        /\ report.analysis_quality =
              CompletenessScore(report) + ContentScore(report) + PerformanceScore(report)

\* a finished run with exactly three complete sections and a completeness
\* share of 0.36
C16_Witness ==
    /\ pc = "returned"
    /\ response.kind = "report"
    /\ Cardinality(MeetingBar(report)) = 3
    /\ CountTrue(report.completion_status) = 3
    /\ CompletenessScore(report) = 360

\* the stripped lines of a text
StrippedLines(text) ==
    LET lines == SplitLines(text) IN [i \in 1 .. Len(lines) |-> Strip(lines[i])]

\* every line is a numbered item: digits, "." or ")", and a text of more
\* than 20 characters
AllNumbered(text) ==
    /\ text # <<>>
    /\ \A i \in 1 .. Len(StrippedLines(text)) :
          /\ NumberedMatch(StrippedLines(text)[i])
          /\ StrLen(NumberedGroup(StrippedLines(text)[i])) > MinItemLen

\* C17: for a text whose lines are all numbered items the parser returns
\* one item per line, the text after the marker, in line order; the two
\* numbered lines of the example give exactly 2 items
C17_OneItemPerNumberedLine ==
    Done("parse") /\ AllNumbered(probe.args) =>
        probe.value = [i \in 1 .. Len(StrippedLines(probe.args)) |->
                         NumberedGroup(StrippedLines(probe.args)[i])]

\* the two numbered items of the example have given four items
C17_Witness ==
    /\ Done("parse")
    /\ probe.args = TwoNumberedItems
    /\ Len(probe.value) = 4
    /\ probe.value[3] = StrippedLines(TwoNumberedItems)[1]

\* C18: for every text the parser returns a list of at most 8 items, each
\* a non-empty string; the empty text gives the empty list
C18_AtMostEightItems ==
    Done("parse") =>
        /\ Len(probe.value) <= MaxRecommendations
        /\ \A i \in 1 .. Len(probe.value) : probe.value[i] # <<>>
        /\ probe.args = <<>> => probe.value = <<>>

\* ten numbered items have given eight
C18_Witness ==
    /\ Done("parse")
    /\ Len(StrippedLines(probe.args)) = 10
    /\ AllNumbered(probe.args)
    /\ Len(probe.value) = MaxRecommendations

\* a line the second pass takes
ActionLine(line) ==
    /\ StrLen(line) > MinActionLen
    /\ StrLen(line) < MaxActionLen
    /\ HasActionWord(line)

\* C19: the second pass runs only when the first found fewer than 4 items.
\* With 4 or more the result is the first 8 items of the first pass in line
\* order; otherwise the items of the first pass come first, every further
\* item is a line with an action verb that was not in the list before, in
\* line order, and the pass stops at 8 items
C19_SecondPassBelowFour ==
    Done("parse") /\ probe.args # <<>> =>
        LET lines == StrippedLines(probe.args)
            first == PrimaryExtraction(SplitLines(probe.args), <<>>)
            n     == Len(first)
            out   == probe.value
        IN  IF n >= SecondPassBelow
            THEN out = Prefix(first, MaxRecommendations)
            ELSE /\ Len(out) >= n
                 /\ Len(out) <= MaxRecommendations
                 /\ Prefix(out, n) = first
                 /\ \A i \in (n + 1) .. Len(out) :
                       /\ ActionLine(out[i])
                       /\ \A k \in 1 .. (i - 1) : out[k] # out[i]
                       /\ \E j \in 1 .. Len(lines) : lines[j] = out[i]
                 /\ \A i, k \in (n + 1) .. Len(out) :
                       i < k => \E j, m \in 1 .. Len(lines) :
                                   j < m /\ lines[j] = out[i] /\ lines[m] = out[k]
                 /\ Len(out) < MaxRecommendations =>
                       \A j \in 1 .. Len(lines) :
                           ActionLine(lines[j]) => \E i \in 1 .. Len(out) : out[i] = lines[j]

\* the second pass has run after a first pass with three items and has
\* stopped at 8 items with lines left
C19_Witness ==
    /\ Done("parse")
    /\ Len(PrimaryExtraction(SplitLines(probe.args), <<>>)) = 3
    /\ Len(probe.value) = MaxRecommendations
    /\ \E j \in 1 .. Len(StrippedLines(probe.args)) :
          /\ ActionLine(StrippedLines(probe.args)[j])
          /\ \A i \in 1 .. Len(probe.value) : probe.value[i] # StrippedLines(probe.args)[j]

\* C20: for every text and every max_chars >= 0, _clean_input returns a
\* string of at most max_chars characters, all of them kept by the pattern;
\* an empty text or a value that is no str gives the empty string; the call
\* changes nothing in the system
C20_CleanInputContract ==
    Done("clean") =>
        /\ StrLen(probe.value) <= probe.args.max_chars
        /\ \A i \in 1 .. Len(probe.value) : ~Removed(probe.value[i].c)
        /\ (~probe.args.text.is_str \/ probe.args.text.v = <<>>) => probe.value = <<>>
        /\ Constructed

\* a text with a removed character, longer than max_chars after cleaning,
\* has been cut to max_chars characters
C20_Witness ==
    /\ Done("clean")
    /\ probe.args.text.is_str
    /\ \E i \in 1 .. Len(probe.args.text.v) : Removed(probe.args.text.v[i].c)
    /\ StrLen(Strip(ReSubDisallowed(probe.args.text.v))) > probe.args.max_chars
    /\ probe.args.max_chars > 0
    /\ StrLen(probe.value) = probe.args.max_chars

\* C21: within one call the models are tried in list order, the primary
\* first; each is invoked at most 3 times and never again once the executor
\* has moved on; a response that is empty or too short uses up one attempt
\* on its model; at most 3 x (number of models) invocations are made
C21_ModelsTriedInOrder ==
    stage = "direct" =>
        /\ Len(trace.models) = trace.calls
        /\ trace.calls <= AttemptsPerModel * NumModels
        /\ trace.models # <<>> => trace.models[1] = 0
        /\ \A i \in 1 .. Len(trace.models) :
              /\ trace.models[i] \in 0 .. NumModels - 1
              /\ i > 1 => trace.models[i] \in {trace.models[i - 1], trace.models[i - 1] + 1}
        /\ \A m \in 0 .. NumModels - 1 :
              Cardinality({i \in 1 .. Len(trace.models) : trace.models[i] = m})
                  <= AttemptsPerModel
        /\ trace.last_outcome = "rejected" =>
              IF trace.last_attempt + 1 < AttemptsPerModel
              THEN model_index = trace.last_model /\ attempt = trace.last_attempt + 1
              ELSE model_index = trace.last_model + 1 /\ attempt = 0

\* a call has made nine invocations, three on each model in turn, the
\* last one answered by a response that was too short
C21_Witness ==
    /\ DirectReturned
    /\ trace.models = <<0, 0, 0, 1, 1, 1, 2, 2, 2>>
    /\ trace.last_outcome = "rejected"
    /\ ~trace.rate_limited_only
    /\ exit = "fallback"

\* the failures after which the executor sleeps
SleepingFailures == {"rate_limit", "server_error", "exception"}

\* the back-off after a failure of attempt a on model m
BackoffIsAsStated ==
    trace.last_sleep =
        CASE trace.last_outcome = "rate_limit" ->
                 (trace.last_attempt + 1) * 15 + trace.last_model * 10
          [] trace.last_outcome = "server_error" -> (trace.last_attempt + 1) * 5
          [] trace.last_outcome = "exception" -> (trace.last_attempt + 1) * 3

\* C22 as stated: after a failed attempt a on model m the executor sleeps
\* (a+1)*15 + m*10 seconds for a rate limit, (a+1)*5 for another API error
\* that is not "model unavailable", (a+1)*3 for any other failure, and its
\* next remote invocation is on the same model m
C22_BackoffThenSameModel ==
    (stage = "direct" /\ trace.last_outcome \in SleepingFailures) =>
        /\ BackoffIsAsStated
        /\ Invoking => model_index = trace.last_model

\* C22, amended: the sleeps are as stated; the next invocation is attempt
\* a+1 on the same model when a < 2, and after the third attempt (a = 2)
\* the first attempt on model m+1, or none after the last model
C22_BackoffThenNextAttempt ==
    (stage = "direct" /\ trace.last_outcome \in SleepingFailures) =>
        /\ BackoffIsAsStated
        /\ trace.sleeps > 0
        /\ IF trace.last_attempt + 1 < AttemptsPerModel
           THEN model_index = trace.last_model /\ attempt = trace.last_attempt + 1
           ELSE model_index = trace.last_model + 1 /\ attempt = 0
        /\ trace.last_model = NumModels - 1 /\ trace.last_attempt = AttemptsPerModel - 1
              => ~Invoking

\* the third attempt on the second model was rate-limited: the executor has
\* slept 55 seconds and stands at the first attempt of the third model
C22_Witness ==
    /\ stage = "direct"
    /\ Invoking
    /\ trace.last_outcome = "rate_limit"
    /\ trace.last_model = 1
    /\ trace.last_attempt = 2
    /\ trace.last_sleep = 55
    /\ model_index = 2
    /\ attempt = 0

\* C23: a remote response is accepted only with a choice whose trimmed
\* text is longer than 150 characters; a shorter one is neither returned
\* nor cached, so a call returns a cache value, an accepted response, the
\* "no input" message or the fallback text
C23_ShortResponseNeverReturned ==
    stage = "direct" =>
        /\ \A k \in DOMAIN cache : StrLen(cache[k]) > MinQuality
        /\ trace.last_outcome = "rejected" =>
              /\ cache = cache_before
              /\ pc = "agent_return" => exit = "fallback"
        /\ trace.last_outcome = "accepted" =>
              /\ exit = "accepted"
              /\ \E raw \in DirectResponses :
                    raw # <<>> /\ StrLen(Strip(raw)) > MinQuality /\ result = Strip(raw)
        /\ pc = "agent_return" =>
              \/ exit = "cache_hit" /\ cache_id \in DOMAIN cache_before
                    /\ result = cache_before[cache_id]
              \/ exit = "accepted" /\ StrLen(result) > MinQuality
                    /\ trace.last_outcome = "accepted"
              \/ exit = "no_input" /\ result = NoInputText(context)
              \/ exit = "fallback" /\ result = FallbackText(context)

\* a response that was empty or too short was turned down by a call that
\* found the cache filled and has left it as it was
C23_Witness ==
    /\ stage = "direct"
    /\ pc = "attempt"
    /\ trace.last_outcome = "rejected"
    /\ cache # <<>>
    /\ cache = cache_before

\* C24: acceptance is the one success exit of the loops: the first accepted
\* response is stored under the fingerprint of the call and returned at
\* once, no invocation and no sleep of the call follows it, and at the
\* return the cache maps the fingerprint to the returned text
C24_AcceptanceReturnsAtOnce ==
    stage = "direct" =>
        /\ trace.last_outcome = "accepted" <=> exit = "accepted"
        /\ exit = "accepted" =>
              /\ pc = "agent_return"
              /\ ~Invoking
              /\ trace.last_sleep = 0
              /\ cache_id = GenerateCacheId(JsonDumps(entry_messages))
              /\ cache_id \notin DOMAIN cache_before
              /\ DOMAIN cache = DOMAIN cache_before \cup {cache_id}
              /\ cache[cache_id] = result
              /\ \A k \in DOMAIN cache_before : cache[k] = cache_before[k]
        /\ exit # "accepted" /\ pc \in {"attempt", "agent_return"} => cache = cache_before

\* a call was accepted at its fifth invocation, after sleeps, and its text
\* is in the cache under the fingerprint of the call
C24_Witness ==
    /\ DirectReturned
    /\ exit = "accepted"
    /\ trace.calls = 5
    /\ trace.sleeps >= 2
    /\ cache[cache_id] = result
    /\ cache_before # <<>>

\* C25 as stated: the executor calls of a run are serial, with the fixed delay of 3
\* seconds between the return of one and the start of the next: market to
\* competitive, competitive to risk, risk to recommendations and
\* recommendations to summary
C25_DelayBeforeEveryCall ==
    stage \in Sections /\ context # "none" =>
        /\ call_log # <<>>
        /\ context = call_log[Len(call_log)]
        /\ Len(call_log) > 1 => inter_call_sleep = InterCallDelay

\* C25, amended: the calls are serial; the delay of 3 seconds lies between
\* market and competitive, competitive and risk, risk and recommendations;
\* the summary call starts with no delay after the recommendations call
C25_DelayBetweenStages ==
    stage \in Sections /\ context # "none" =>
        /\ call_log # <<>>
        /\ context = call_log[Len(call_log)]
        /\ Len(call_log) > 1 =>
              inter_call_sleep =
                  IF context = "executive_summary" THEN 0 ELSE InterCallDelay

\* the summary call is under way and the run has not slept since the
\* recommendations call returned
C25_Witness ==
    /\ stage = "summary"
    /\ pc = "attempt"
    /\ context = "executive_summary"
    /\ Len(call_log) = 5
    /\ inter_call_sleep = 0

\* C26: a run whose five executor calls all ended in the fallback is
\* delivered with all five sections complete and exactly four
\* recommendations; the completeness share is the full 0.6, and a run of at
\* most 60 seconds (no back-off) scores 0.875
C26_AllFallbackRunIsComplete ==
    pc = "returned" /\ run_exits = [i \in 1 .. 5 |-> "fallback"] =>
        /\ response.kind = "report"
        /\ response.completed = Cardinality(Sections)
        /\ response.total = Cardinality(Sections)
        /\ DOMAIN report.completion_status = StatusKeys
        /\ \A key \in StatusKeys : report.completion_status[key]
        /\ StrLen(Strip(report.market_intelligence)) > MarketBar
        /\ StrLen(Strip(report.executive_briefing)) > ExecutiveBar
        /\ Len(report.strategic_actions) = 4
        /\ CompletenessScore(report) = 600
        /\ report.processing_duration <= 60 => report.analysis_quality = 875

\* a delivered run with five fallbacks that took the nine seconds of its
\* three delays
C26_Witness ==
    /\ pc = "returned"
    /\ run_exits = [i \in 1 .. 5 |-> "fallback"]
    /\ report.processing_duration = 9
    /\ response.quality = 875

\* C27: the response cache is write-once and monotonic: no step of any
\* executor call removes an entry, and a key that is in the cache keeps its
\* value in every later state
C27_CacheIsWriteOnce ==
    [][\A key \in DOMAIN cache :
          /\ key \in DOMAIN cache'
          /\ cache'[key] = cache[key]]_vars

\* a call that began with an entry in the cache was accepted and stored a
\* second entry next to it
C27_Witness ==
    /\ DirectReturned
    /\ exit = "accepted"
    /\ cache_before # <<>>
    /\ Cardinality(DOMAIN cache) = 2
    /\ \A key \in DOMAIN cache_before : cache[key] = cache_before[key]

\* C28: the cache key is a function of the message list alone: a call with
\* the messages of an earlier accepted call returns that call's response
\* without any remote invocation, whatever its own max_tokens and context
C28_KeyIgnoresBudgetAndLabel ==
    /\ \A msgs \in DOMAIN answered :
          LET key == CacheKeyOf([i \in 1 .. Len(msgs) |-> i], msgs)
          IN  /\ key \in DOMAIN cache
              /\ cache[key] = answered[msgs]
    /\ DirectReturned /\ cache_id \in DOMAIN cache_before =>
          /\ exit = "cache_hit"
          /\ trace.calls = 0
          /\ ~run_remote
          /\ result = cache_before[cache_id]
          /\ result = answered[entry_messages]

\* a call returned from the cache the response that was stored by a call
\* with another max_tokens and another context
C28_Witness ==
    /\ DirectReturned
    /\ exit = "cache_hit"
    /\ trace.calls = 0
    /\ stored_by[cache_id].tokens # max_tokens
    /\ stored_by[cache_id].label # context
    /\ result = answered[entry_messages]

\* C29: the back-off follows every failed attempt that is retried with a
\* wait, the last attempt of the last model included; a call whose nine
\* invocations were all rate-limited sleeps nine times, 360 seconds in all
\* (90 + 120 + 150), the last time for 65 seconds, and returns the fallback
C29_BackoffAfterLastAttempt ==
    /\ stage = "direct" /\ trace.last_outcome \in SleepingFailures =>
          trace.last_sleep > 0
    /\ DirectReturned /\ exit = "fallback" /\ trace.rate_limited_only =>
          /\ trace.calls = NumModels * AttemptsPerModel
          /\ trace.sleeps = 9
          /\ trace.slept = 360
          /\ trace.last_model = NumModels - 1
          /\ trace.last_attempt = AttemptsPerModel - 1
          /\ trace.last_sleep = 65

\* a direct call was rate-limited at each of its nine invocations and has
\* returned the fallback
C29_Witness ==
    /\ DirectReturned
    /\ exit = "fallback"
    /\ trace.rate_limited_only
    /\ trace.calls = 9
    /\ trace.slept = 360
    /\ result = FallbackText(context)

\* C30: a request with the query and targets of the request before it,
\* whose five executor calls were all accepted, is answered from the cache
\* alone: no remote invocation, the same five texts, recommendations and
\* flags, and the delays between the stages still taken
C30_RepeatedRunUsesCacheOnly ==
    /\ previous.accepted
    /\ previous.query = request.query
    /\ previous.targets = request.targets
    => /\ ~run_remote
       /\ \A i \in DOMAIN run_exits : run_exits[i] = "cache_hit"
       /\ pc # "attempt"
       /\ pc = "returned" =>
             /\ response.kind = "report"
             /\ Len(run_exits) = 5
             /\ run_slept
             /\ << report.market_intelligence, report.competitive_landscape,
                   report.risk_evaluation, recommendations,
                   report.executive_briefing >> = previous.sections
             /\ report.strategic_actions = previous.strategic_actions
             /\ report.completion_status = previous.completion_status

\* the repeated request has been answered
C30_Witness ==
    /\ previous.accepted
    /\ previous.query = request.query
    /\ previous.targets = request.targets
    /\ pc = "returned"
    /\ response.kind = "report"
    /\ ~run_remote
    /\ run_slept
    /\ Len(call_log) = 5

====
